---- MODULE Spec2Model ----
(***************************************************************************)
(* Model of gitlab_mr.py: one invocation of Cli.create, from the resolved  *)
(* options to the return value or the raised error, together with the pure *)
(* helpers it calls.                                                       *)
(*                                                                         *)
(* Strings are sequences of tokens (each token an indivisible piece of     *)
(* text), so that concatenation is \o and partition, split, strip, lower   *)
(* and startswith are computed, not assumed.  Python's None is the         *)
(* one-token string None, which no real string equals.                     *)
(***************************************************************************)
EXTENDS Integers, Sequences, FiniteSets, TLC

\* ------------------------------------------------------------------ bounds
\* Most lines `git cherry -v` prints in one call.
MaxCommits == 2
\* Most build statuses the tip commit carries.
MaxStatuses == 2
\* Most options of `create` given another value than their default.
MaxFlags == 1

\* ----------------------------------------------------------------- strings
None == <<"<None>">>

\* Python truthiness of an optional string.
Truthy(s) == s /= None /\ s /= <<>>

\* Python `a or b` on optional strings.
Or(a, b) == IF Truthy(a) THEN a ELSE b

\* str.format of an optional string: None prints as the word None.
Fmt(s) == IF s = None THEN <<"None">> ELSE s

\* Index of the first / last occurrence of token t in s, 0 when absent.
IndexOf(s, t) ==
    IF \E i \in 1..Len(s) : s[i] = t
    THEN CHOOSE i \in 1..Len(s) : s[i] = t /\ \A j \in 1..(i - 1) : s[j] /= t
    ELSE 0

LastIndexOf(s, t) ==
    IF \E i \in 1..Len(s) : s[i] = t
    THEN CHOOSE i \in 1..Len(s) : s[i] = t /\ \A j \in (i + 1)..Len(s) : s[j] /= t
    ELSE 0

\* s.partition(sep)[2]: what follows the first sep, '' when sep is absent.
PartitionAfter(s, sep) ==
    IF IndexOf(s, sep) = 0 THEN <<>> ELSE SubSeq(s, IndexOf(s, sep) + 1, Len(s))

\* s.rpartition(sep)[0]: what precedes the last sep, '' when sep is absent.
RPartitionBefore(s, sep) ==
    IF LastIndexOf(s, sep) = 0 THEN <<>> ELSE SubSeq(s, 1, LastIndexOf(s, sep) - 1)

\* TRUE when part occurs in s as a contiguous run of tokens.
Contains(s, part) ==
    \E i \in 0..(Len(s) - Len(part)) : SubSeq(s, i + 1, i + Len(part)) = part

\* '\n'.join(lines)
RECURSIVE JoinLines(_)
JoinLines(lines) ==
    IF lines = <<>> THEN <<>>
    ELSE IF Len(lines) = 1 THEN lines[1]
    ELSE lines[1] \o <<"\n">> \o JoinLines(Tail(lines))

\* str.lower, one character at a time.
LowerChar(c) ==
    CASE c = "Y" -> "y"
      [] c = "E" -> "e"
      [] c = "S" -> "s"
      [] c = "D" -> "d"
      [] c = "I" -> "i"
      [] c = "T" -> "t"
      [] c = "N" -> "n"
      [] c = "O" -> "o"
      [] OTHER -> c

Lower(s) == [i \in 1..Len(s) |-> LowerChar(s[i])]

\* Variant of is_yes that reads an empty answer as yes.
is_yes_or_empty(ans) == Lower(ans) \in {<<>>, <<"y">>, <<"y", "e", "s">>}

\* Variant of is_yes that reads every answer starting with y as yes.
is_yes_prefix(ans) == Lower(ans) /= <<>> /\ Lower(ans)[1] = "y"

\* Variant of is_yes without the lower(): only lowercase answers count.
is_yes_lowercase_only(ans) == ans \in {<<"y">>, <<"y", "e", "s">>}

is_yes(ans) == Lower(ans) \in {<<"y">>, <<"y", "e", "s">>}

is_edit(ans) == Lower(ans) \in {<<"e">>, <<"e", "d", "i", "t">>}

\* ------------------------------------------------------------- whitespace
Whitespace == {" ", "\t", "\n", "\r"}

\* Index of the first token of s that is not whitespace / is whitespace,
\* Len(s) + 1 when there is none.
FirstNonWs(s) ==
    IF \E i \in 1..Len(s) : s[i] \notin Whitespace
    THEN CHOOSE i \in 1..Len(s) :
            s[i] \notin Whitespace /\ \A j \in 1..(i - 1) : s[j] \in Whitespace
    ELSE Len(s) + 1

FirstWs(s) ==
    IF \E i \in 1..Len(s) : s[i] \in Whitespace
    THEN CHOOSE i \in 1..Len(s) :
            s[i] \in Whitespace /\ \A j \in 1..(i - 1) : s[j] \notin Whitespace
    ELSE Len(s) + 1

LastNonWs(s) ==
    IF \E i \in 1..Len(s) : s[i] \notin Whitespace
    THEN CHOOSE i \in 1..Len(s) :
            s[i] \notin Whitespace /\ \A j \in (i + 1)..Len(s) : s[j] \in Whitespace
    ELSE 0

LStrip(s) == SubSeq(s, FirstNonWs(s), Len(s))

\* str.strip()
Strip(s) == SubSeq(s, FirstNonWs(s), LastNonWs(s))

\* s.split(sep): the pieces between the occurrences of token sep.
RECURSIVE SplitOn(_, _)
SplitOn(s, sep) ==
    IF IndexOf(s, sep) = 0 THEN <<s>>
    ELSE <<SubSeq(s, 1, IndexOf(s, sep) - 1)>>
         \o SplitOn(SubSeq(s, IndexOf(s, sep) + 1, Len(s)), sep)

\* file.readlines() followed by the per-line strip: a trailing newline ends
\* the last line, it does not open an empty one.
ReadLines(text) ==
    IF text = <<>> THEN <<>>
    ELSE IF text[Len(text)] = "\n" THEN SplitOn(SubSeq(text, 1, Len(text) - 1), "\n")
    ELSE SplitOn(text, "\n")

\* ----------------------------------------------------- project path of a URL
\* urlparse(url).path for the URL shapes used here: with a '://' the path
\* starts at the first '/' after the network location; without one the whole
\* text is the path.
UrlPath(url) ==
    IF IndexOf(url, "://") = 0 THEN url
    ELSE LET rest == SubSeq(url, IndexOf(url, "://") + 1, Len(url))
         IN IF IndexOf(rest, "/") = 0 THEN <<>>
            ELSE SubSeq(rest, IndexOf(rest, "/"), Len(rest))

\* '/'.join(path.split('/')[-2:])
LastTwoSegments(path) ==
    LET segs == SplitOn(path, "/")
        n    == Len(segs)
    IN IF n = 1 THEN segs[1] ELSE segs[n - 1] \o <<"/">> \o segs[n]

get_project_path_from_url(url) ==
    LET path == IF url /= <<>> /\ url[1] = "git@"
                THEN PartitionAfter(url, ":")
                ELSE UrlPath(url)
    IN RPartitionBefore(LastTwoSegments(path), ".git")

\* ------------------------------------------------------ commit reconciliation
MRCommit(hash, message, state) == [hash |-> hash, message |-> message, state |-> state]

\* line.split(maxsplit=2): the first two whitespace-separated fields and the
\* remainder; fewer than three fields leave the later ones empty.
SplitMax2(line) ==
    LET a  == LStrip(line)
        f1 == SubSeq(a, 1, FirstWs(a) - 1)
        b  == LStrip(SubSeq(a, FirstWs(a), Len(a)))
        f2 == SubSeq(b, 1, FirstWs(b) - 1)
        c  == LStrip(SubSeq(b, FirstWs(b), Len(b)))
    IN <<f1, f2, c>>

\* The tuple unpacking `state, hash, msg = ...` raises ValueError otherwise.
UnpacksToThree(line) == \A i \in 1..3 : SplitMax2(line)[i] /= <<>>

\* The parsed commits of a successful `git cherry -v` output (already
\* stripped by git_cmd), and whether parsing it raises ValueError.
CherryLines(res) == IF Strip(res) = <<>> THEN <<>> ELSE SplitOn(res, "\n")

get_mr_commits_raises(res) ==
    \E i \in 1..Len(CherryLines(res)) : ~UnpacksToThree(CherryLines(res)[i])

\* Variant of get_mr_commits that keeps only the first word of the message.
get_mr_commits_first_word(res) ==
    [i \in 1..Len(CherryLines(res)) |->
        LET f == SplitMax2(CherryLines(res)[i])
        IN MRCommit(f[2], SubSeq(f[3], 1, FirstWs(f[3]) - 1), f[1])]

get_mr_commits(res) ==
    [i \in 1..Len(CherryLines(res)) |->
        LET f == SplitMax2(CherryLines(res)[i]) IN MRCommit(f[2], f[3], f[1])]

\* ------------------------------------------------------------- formatting
\* Variant of get_mr_outline with source and target exchanged.
get_mr_outline_swapped(data, source_project, target_project) ==
    target_project.path_with_namespace \o <<":">> \o data["target_branch"]
    \o <<" -> ">>
    \o source_project.path_with_namespace \o <<":">> \o data["source_branch"]

get_mr_outline(data, source_project, target_project) ==
    source_project.path_with_namespace \o <<":">> \o data["source_branch"]
    \o <<" -> ">>
    \o target_project.path_with_namespace \o <<":">> \o data["target_branch"]

\* c.hash[:8]
Hash8(hash) == SubSeq(hash, 1, IF Len(hash) < 8 THEN Len(hash) ELSE 8)

format_mr_commits(commits, prefix) ==
    JoinLines([i \in 1..Len(commits) |->
        prefix \o commits[i].state \o <<" ">> \o Hash8(commits[i].hash)
        \o <<" ">> \o commits[i].message])

\* ------------------------------------------------------------ dictionaries
\* dict.get(key): None when the key is absent.
Get(d, key) == IF key \in DOMAIN d THEN d[key] ELSE None

\* d.pop(key, None)
Pop(d, key) == [k \in DOMAIN d \ {key} |-> d[k]]

\* d[key] = value
Put(d, key, value) == (key :> value) @@ d

\* d.update(e)
Update(d, e) == e @@ d

\* --------------------------------------------------------- edit sub-dialog
\* The buffer edit_mr writes for the editor.
edit_mr_content(data, source_project, target_project, commits) ==
    LET title    == Get(data, "title")
        assignee == Get(data, "assignee")
    IN <<"Title:", "\n">>
       \o (IF Truthy(title) THEN title \o <<"\n">> ELSE <<>>) \o <<"\n">>
       \o <<"Assignee:", "\n">>
       \o (IF Truthy(assignee) THEN assignee \o <<"\n">> ELSE <<>>) \o <<"\n">>
       \o <<"Description:", "\n">>
       \o <<"\n">>
       \o <<"#", " You are creating a merge request:", "\n">>
       \o <<"#", "\t">> \o get_mr_outline(data, source_project, target_project) \o <<"\n">>
       \o <<"#", "\n">>
       \o <<"#", " Next commits will be included in the merge request:", "\n">>
       \o <<"#", "\n">>
       \o format_mr_commits(commits, <<"#", "\t">>) \o <<"\n">>
       \o <<"#", "\n">>
       \o <<"#", " Empty title will cancel the merge request.">>

keys_map == ("Title:" :> "title") @@ ("Assignee:" :> "assignee")
            @@ ("Description:" :> "description")

IsLabel(line) == Len(line) = 1 /\ line[1] \in DOMAIN keys_map

\* Variant of maybe_save_lines that stores a section only when it has lines.
maybe_save_lines_nonempty(data, key, lines) ==
    IF key /= "" /\ lines /= <<>> THEN Put(data, key, JoinLines(lines)) ELSE data

\* maybe_save_lines: store the section collected so far, if there is one.
maybe_save_lines(data, key, lines) ==
    IF key /= "" THEN Put(data, key, JoinLines(lines)) ELSE data

\* The loop of parse_mr_file from line i on, with the loop's variables.
RECURSIVE parse_mr_loop(_, _, _, _, _)
parse_mr_loop(lines, i, data, current_key, current_lines) ==
    IF i > Len(lines) THEN maybe_save_lines(data, current_key, current_lines)
    ELSE LET line == Strip(lines[i])
         IN IF line = <<>> \/ line[1] = "#"
            THEN parse_mr_loop(lines, i + 1, data, current_key, current_lines)
            ELSE IF IsLabel(line)
            THEN parse_mr_loop(lines, i + 1,
                               maybe_save_lines(data, current_key, current_lines),
                               keys_map[line[1]], <<>>)
            ELSE parse_mr_loop(lines, i + 1, data, current_key,
                               Append(current_lines, line))

parse_mr_file(text) == parse_mr_loop(ReadLines(text), 1, <<>>, "", <<>>)

\* ------------------------------------------------------------ environment
DEFAULT_MR_REMOTE == <<"origin">>

\* The remotes of the repository and their URLs.
RepoRemotes ==
    (<<"origin">> :> <<"git@", "example.com", ":", "test", "/", "test", ".git">>)
    @@ (<<"fork">> :> <<"https", "://", "example.com", "/", "dev", "/", "test", ".git">>)

\* The remote names a --source-remote / --target-remote flag may carry.
SourceRemoteFlags == {None, <<"fork">>, <<"nosuch">>}
TargetRemoteFlags == {None, <<"gone">>}

\* The local branches and the upstream each may track.
LocalBranches == {<<"feature">>}
TrackingChoices == {None, <<"origin", "/", "feat-up">>}

\* The references a remote may be known to have.
RefChoices == {{<<"master">>}, {<<"master">>, <<"feature">>, <<"feat-up">>}}

MessageFlags == {None, <<>>, <<"Fix", " ", "login">>}
AssigneeFlags == {None, <<"bob">>}
TargetBranchFlags == {None, <<"develop">>}

\* Lines typed at a prompt.
Answers ==
    { <<>>, <<"y">>, <<"Y", "e", "S">>, <<"e">>, <<"E", "D", "I", "T">>,
      <<"n">>, <<" ", "y">>, <<"y", "e">> }

\* Commit i as `git cherry -v` prints it.
CherryHash(i) == <<ToString(i), "a", "b", "c", "d", "e", "f", "0", "1", "2">>
CherryMessage(i) == IF i = 1 THEN <<"Test">> ELSE <<"Test", " ", "commit", " ", ToString(i)>>
CherryLine(i) == <<"+", " ">> \o CherryHash(i) \o <<" ">> \o CherryMessage(i)

\* The stripped standard output of one successful `git cherry -v`: up to
\* MaxCommits well-formed lines, or a line for a commit without a message.
CherryOutputs ==
    { JoinLines([i \in 1..n |-> CherryLine(i)]) : n \in 0..MaxCommits }
    \cup { <<"+", " ">> \o CherryHash(1) }

\* What one run of git ends with: its exit status and its output.
GitResults ==
    { [returncode |-> 0, stdout |-> o] : o \in CherryOutputs }
    \cup { [returncode |-> 128, stdout |-> <<>>] }

\* How a call to the host may end.
HostOutcomes == {"ok", "GitlabGetError", "GitlabConnectionError", "GitlabError"}

\* The project the host returns for a path.
ProjectId == 123
HostProject(path) ==
    [id |-> IF path = <<"test", "/", "test">> THEN ProjectId ELSE ProjectId + 1,
     path_with_namespace |-> path,
     default_branch |-> <<"master">>]

NoProject == [id |-> 0, path_with_namespace |-> None, default_branch |-> None]

\* The user lists a search on the host may return: each user has a
\* username and an id.
UserSearchResults ==
    { <<>>,
      <<[username |-> <<"bob">>, id |-> 7]>>,
      <<[username |-> <<"bob", "by">>, id |-> 8]>>,
      <<[username |-> <<"bob", "by">>, id |-> 8], [username |-> <<"bob">>, id |-> 7]>> }

\* The build statuses a commit may carry.
StatusKinds ==
    { [status |-> "success", allow_failure |-> FALSE],
      [status |-> "failed", allow_failure |-> TRUE],
      [status |-> "failed", allow_failure |-> FALSE] }

StatusLists == UNION { [1..n -> StatusKinds] : n \in 0..MaxStatuses }

WebUrl == <<"https://example.com/test/test/merge_requests/123">>

\* ------------------------------------------------------------------ state
VARIABLES
    opts,                 \* the parsed options of `create`
    repo,                 \* the repository: head, dirtiness, branches, refs
    pc,                   \* the statement of Cli.create to run next
    result,               \* how the invocation ended, once it has
    source_remote, target_remote,
    source_project_path, target_project_path,
    source_branch, source_project, remote_source_branch,
    local_commits, target_project, target_branch,
    data, commits, answer, mr,
    statuses,             \* the build statuses under test, a temporary
    hostCalls,            \* the calls made on the host, in order
    gitCalls,             \* the runs of git cherry, in order
    prompts,              \* the questions asked and the editor runs, in order
    input_line,           \* the line input() returned last
    stdout,               \* what was printed, in order
    call                  \* one call of a helper function: its input and its outcome

vars == <<opts, repo, pc, result, source_remote, target_remote,
          source_project_path, target_project_path, source_branch,
          source_project, remote_source_branch, local_commits, target_project,
          target_branch, data, commits, answer, mr, statuses, hostCalls, gitCalls,
          prompts, input_line, stdout, call>>

\* How an invocation ends.
Running == [kind |-> "running", code |-> 0, msg |-> <<>>]
Return(code) == [kind |-> "return", code |-> code, msg |-> <<>>]
ReturnNone == [kind |-> "return_none", code |-> 0, msg |-> <<>>]
\* err(): _GitlabMRError with the formatted message, exit_code 1.
Fatal(msg) == [kind |-> "fatal", code |-> 1, msg |-> msg]
\* An exception that is no _GitlabMRError.
Raise(type) == [kind |-> "exception", code |-> 1, msg |-> <<type>>]

\* The text of the exception a failed host call raises.
ExcText(outcome) == <<"<", outcome, ">">>

\* One call on the host: the function of gitlab_mr.py that makes it, the
\* operation, its argument and how it ended.
HostCall(by, op, arg, outcome) == [by |-> by, op |-> op, arg |-> arg, outcome |-> outcome]

\* A call of users.search that returned the list users.
UserSearch(username, users) ==
    [by |-> "get_user_by_username", op |-> "users.search", arg |-> username,
     outcome |-> "ok", returned |-> users]

\* One run of `git cherry -v <target> <source>` by get_mr_commits.
GitCall(source, target, git) ==
    [source |-> source, target |-> target,
     returncode |-> git.returncode, stdout |-> git.stdout]

\* repo.remotes[remote].refs[branch].name
RefName(remote, branch) == remote \o <<"/">> \o branch

\* What create prints.
CreatedNotice(url) ==
    <<"Successfully created merge request:", "\n", "\t", "Merge request URL:", " ">>
    \o url \o <<"\n">>

FailedBuildsNotice ==
    <<"Cannot accept merge request because of there are failed builds.">>

MergedNotice(o) ==
    <<"Merge request was successfully updated:", "\n", "\t", "Automatic merge: ",
      ToString(o.accept_merge), "\n", "\t", "Remove source branch: ",
      ToString(o.remove_branch)>>

\* No helper function is called on its own.
NoCall == [fn |-> "none"]

\* The options of `create` when no flag is given: the defaults of the parser
\* for a Cli built with the default settings.
DefaultOpts ==
    [source_remote |-> None, target_remote |-> None, source_branch |-> None,
     target_branch |-> None, message |-> None, edit |-> FALSE, assignee |-> None,
     accept_merge |-> FALSE, remove_branch |-> TRUE]

\* The flags that give another value than the default.
FlagsGiven(o) == { f \in DOMAIN DefaultOpts : o[f] /= DefaultOpts[f] }

OptionSets ==
    { o \in [source_remote : SourceRemoteFlags,
              target_remote : TargetRemoteFlags,
              source_branch : {None} \cup LocalBranches,
              target_branch : TargetBranchFlags,
              message : MessageFlags,
              edit : BOOLEAN,
              assignee : AssigneeFlags,
              accept_merge : BOOLEAN,
              remove_branch : BOOLEAN] : Cardinality(FlagsGiven(o)) <= MaxFlags }

Init ==
    /\ opts \in OptionSets
    /\ repo \in [is_dirty : BOOLEAN,
                 head : {None} \cup LocalBranches,
                 tracking : [LocalBranches -> TrackingChoices],
                 refs : RefChoices]
    /\ pc = "resolve_remotes"
    /\ result = Running
    /\ source_remote = None /\ target_remote = None
    /\ source_project_path = None /\ target_project_path = None
    /\ source_branch = None /\ remote_source_branch = None
    /\ source_project = NoProject /\ target_project = NoProject
    /\ target_branch = None
    /\ local_commits = <<>> /\ commits = <<>>
    /\ data = <<>>
    /\ answer = None /\ input_line = None
    /\ mr = [web_url |-> None]
    /\ statuses = <<>>
    /\ hostCalls = <<>> /\ gitCalls = <<>> /\ prompts = <<>> /\ stdout = <<>>
    /\ call = NoCall

\* --------------------------------------------------------------- messages
\* Cli.__init__: the configured remotes, `mr_source_remote or DEFAULT_MR_REMOTE`,
\* for a Cli built without a configured remote.
self_source_remote == Or(None, DEFAULT_MR_REMOTE)
self_target_remote == Or(None, DEFAULT_MR_REMOTE)

\* Variant of RemoteNotFoundMsg that names the default remote.
RemoteNotFoundMsg_default(remote_name) ==
    <<"Cannot find remote [">> \o DEFAULT_MR_REMOTE \o <<"]">>

RemoteNotFoundMsg(remote_name) == <<"Cannot find remote [">> \o remote_name \o <<"]">>

DetachedMsg == <<"The repo is in detached state. Cannot find out source branch.">>

\* The message get_project_by_path raises for a failed lookup.
ProjectLookupMsg(project_path, outcome) ==
    CASE outcome = "GitlabConnectionError" ->
            <<"Cannot connect to the gitlab server: ">> \o ExcText(outcome)
      [] outcome = "GitlabGetError" ->
            <<"Project [">> \o project_path \o <<"] not found">>
      [] OTHER ->
            <<"Error when getting project [">> \o project_path \o <<"]: ">>
            \o ExcText(outcome)

BranchNotFoundMsg(remote_branch, project) ==
    <<"Branch [">> \o remote_branch \o <<"] from project [">>
    \o project.path_with_namespace \o <<"] not found">>

PushRequiredMsg(remote, branch) ==
    <<"You must push [">> \o branch
    \o <<"] branch before creating merge request:", "\n", "\t", "git push ">>
    \o remote \o <<" ">> \o branch

GitFailedMsg(returncode) ==
    <<"git cherry -v", " command exited with error: ", ToString(returncode)>>

NoCommitsMsg(outline) == <<"Cannot found commits for merge request: ">> \o outline

UserNotFoundMsg(username) == <<"Cannot find user [">> \o username \o <<"]">>

\* The message check_branch raises: GitlabConnectionError is a GitlabError,
\* so the second except clause takes it.
CheckBranchMsg(project, branch, outcome) ==
    IF outcome = "GitlabGetError"
    THEN <<"Cannot find branch [">> \o branch \o <<"] for project [">>
         \o project.path_with_namespace \o <<"]">>
    ELSE <<"Gitlab error: ">> \o ExcText(outcome)

EmptyTitleMsg == <<"Empty [title]. Specify title of the merge request.">>

CreateFailedMsg(outcome) == <<"Error creating merge request: ">> \o ExcText(outcome)

UpdateFailedMsg(outcome) == <<"Error updating merge request: ">> \o ExcText(outcome)

\* Variant of merge_args that passes the remove-branch option instead.
merge_args_remove_branch(o) == [should_remove_source_branch |-> o.remove_branch]

\* The argument of mr.merge.
merge_args(o) == [merge_when_pipeline_succeeds |-> o.accept_merge]

\* ------------------------------------------------------- steps of create
\* The invocation ends with r.
Done(r) == pc' = "done" /\ result' = r

\* The invocation goes on at statement next.
Goto(next) == pc' = next /\ result' = result

\* The remote branch name of a local branch: its upstream's name without the
\* remote, or its own name when it tracks nothing.
RemoteBranchOf(local_branch) ==
    IF repo.tracking[local_branch] /= None
    THEN PartitionAfter(repo.tracking[local_branch], "/")
    ELSE local_branch

\* Variant of default_title that always takes the remote branch name.
default_title_branch_only(message, mr_commits, remote_branch) == remote_branch

\* Variant of default_title that prefers the single commit to the message.
default_title_commit_first(message, mr_commits, remote_branch) ==
    IF Len(mr_commits) = 1 THEN mr_commits[1].message
    ELSE IF Truthy(message) THEN message
    ELSE remote_branch

\* The title Cli.create gives the draft.
default_title(message, mr_commits, remote_branch) ==
    LET t1 == IF Truthy(message) THEN message ELSE None
        t2 == IF ~Truthy(t1) /\ Len(mr_commits) = 1 THEN mr_commits[1].message ELSE t1
    IN IF ~Truthy(t2) THEN remote_branch ELSE t2

\* What the editor may leave in the buffer it was given.
EditorOutputs(content) ==
    { content,
      <<"Title:", "\n", "Assignee:", "\n", "Description:", "\n">>,
      <<"Title:", "\n", "New", " ", "title", "\n", "Assignee:", "\n", "bob", "\n",
        "Description:", "\n", "Why", "\n">>,
      <<"#", " nothing kept", "\n">> }

\* edit_mr, given what the editor left in the buffer.
edit_mr(draft, buffer) == Update(draft, parse_mr_file(buffer))

\* get_user_by_username: the first user of the search result whose username
\* is the one asked for; UserMatches is empty when there is none.
UserMatches(users, username) == { i \in 1..Len(users) : users[i].username = username }

\* Variant of get_user_by_username that takes the first user of the result.
get_user_first(users, username) == users[1]

get_user_by_username(users, username) ==
    users[CHOOSE i \in UserMatches(users, username) :
            \A j \in UserMatches(users, username) : i <= j]

\* Variant of drop_assignee that forgets the pop.
drop_assignee_keep(draft) == draft

\* data.pop('assignee', None)
drop_assignee(draft) == Pop(draft, "assignee")

\* Variant of title_ok that lets every title through.
title_check_skipped(draft) == TRUE

\* The title test of validate_mr_data: TRUE when the draft passes.
title_ok(draft) == Truthy(Get(draft, "title"))

\* Variant of blocking_failed that ignores allow_failure.
any_failed(list) ==
    \E i \in 1..Len(list) : list[i].status = "failed"

\* The test that blocks the merge: a failed status not allowed to fail.
blocking_failed(list) ==
    \E i \in 1..Len(list) :
        ~list[i].allow_failure /\ list[i].status = "failed"

\* create, lines 301-304: the remotes and their project paths.
ResolveRemotes ==
    /\ pc = "resolve_remotes"
    /\ LET sr == Or(opts.source_remote, self_source_remote)
           tr == Or(opts.target_remote, self_target_remote)
       IN /\ source_remote' = sr
          /\ IF sr \notin DOMAIN RepoRemotes
             THEN /\ Done(Fatal(RemoteNotFoundMsg(sr)))
                  /\ UNCHANGED <<source_project_path, target_remote, target_project_path>>
             ELSE /\ source_project_path' = get_project_path_from_url(RepoRemotes[sr])
                  /\ target_remote' = tr
                  /\ IF tr \notin DOMAIN RepoRemotes
                     THEN /\ Done(Fatal(RemoteNotFoundMsg(tr)))
                          /\ UNCHANGED target_project_path
                     ELSE /\ target_project_path' = get_project_path_from_url(RepoRemotes[tr])
                          /\ Goto("dirty")
    /\ UNCHANGED <<call, opts, repo, source_branch, source_project, remote_source_branch, local_commits, target_project, target_branch, data, commits, answer, mr, statuses, hostCalls, gitCalls, prompts, input_line, stdout>>

\* create, lines 306-310: the question about uncommitted changes.
DirtyCheck ==
    /\ pc = "dirty"
    /\ IF repo.is_dirty
       THEN \E typed \in Answers :
               /\ prompts' = Append(prompts, "uncommitted")
               /\ answer' = typed
               /\ input_line' = typed
               /\ IF ~is_yes(typed) THEN Done(Return(1)) ELSE Goto("source_branch")
       ELSE /\ Goto("source_branch")
            /\ UNCHANGED <<answer, prompts, input_line>>
    /\ UNCHANGED <<call, opts, repo, source_remote, target_remote, source_project_path, target_project_path, source_branch, source_project, remote_source_branch, local_commits, target_project, target_branch, data, commits, mr, statuses, hostCalls, gitCalls, stdout>>

\* Variant of DetermineSourceBranch that goes on with no branch when HEAD
\* is detached instead of raising the detached-state error.
DetermineSourceBranchUncaught ==
    /\ pc = "source_branch"
    /\ IF Truthy(opts.source_branch)
       THEN source_branch' = opts.source_branch /\ Goto("source_project")
       ELSE IF repo.head = None
       THEN UNCHANGED source_branch /\ Goto("source_project")
       ELSE source_branch' = repo.head /\ Goto("source_project")
    /\ UNCHANGED <<call, opts, repo, source_remote, target_remote, source_project_path,
                   target_project_path, source_project, remote_source_branch,
                   local_commits, target_project, target_branch, data, commits,
                   answer, mr, statuses, hostCalls, gitCalls, prompts, input_line,
                   stdout>>

\* create, lines 312-315: the source branch, or the detached-state error
\* (repo.head is None when HEAD names no branch).
DetermineSourceBranch ==
    /\ pc = "source_branch"
    /\ IF Truthy(opts.source_branch)
       THEN source_branch' = opts.source_branch /\ Goto("source_project")
       ELSE IF repo.head = None
       THEN UNCHANGED source_branch /\ Done(Fatal(DetachedMsg))
       ELSE source_branch' = repo.head /\ Goto("source_project")
    /\ UNCHANGED <<call, opts, repo, source_remote, target_remote, source_project_path, target_project_path, source_project, remote_source_branch, local_commits, target_project, target_branch, data, commits, answer, mr, statuses, hostCalls, gitCalls, prompts, input_line, stdout>>

\* create, line 316, with get_project_by_path.
GetSourceProject ==
    /\ pc = "source_project"
    /\ \E outcome \in HostOutcomes :
          /\ hostCalls' = Append(hostCalls, HostCall("get_project_by_path",
                 "projects.get", source_project_path, outcome))
          /\ IF outcome = "ok"
             THEN source_project' = HostProject(source_project_path) /\ Goto("remote_branch")
             ELSE /\ UNCHANGED source_project
                  /\ Done(Fatal(ProjectLookupMsg(source_project_path, outcome)))
    /\ UNCHANGED <<call, opts, repo, source_remote, target_remote, source_project_path, target_project_path, source_branch, remote_source_branch, local_commits, target_project, target_branch, data, commits, answer, mr, statuses, gitCalls, prompts, input_line, stdout>>

\* create, lines 317-319, with get_remote_branch_name: the host is asked for
\* the branch; a GitlabError that is neither of the two caught kinds escapes.
GetRemoteBranchName ==
    /\ pc = "remote_branch"
    /\ LET remote_branch == RemoteBranchOf(source_branch)
       IN \E outcome \in HostOutcomes :
             /\ hostCalls' = Append(hostCalls, HostCall("get_remote_branch_name",
                    "branches.get", <<source_project.path_with_namespace, remote_branch>>,
                    outcome))
             /\ CASE outcome = "ok" ->
                        remote_source_branch' = remote_branch /\ Goto("pushed")
                  [] outcome = "GitlabGetError" ->
                        /\ UNCHANGED remote_source_branch
                        /\ Done(Fatal(BranchNotFoundMsg(remote_branch, source_project)))
                  [] outcome = "GitlabConnectionError" ->
                        /\ UNCHANGED remote_source_branch
                        /\ Done(Fatal(ExcText(outcome)))
                  [] OTHER ->
                        /\ UNCHANGED remote_source_branch
                        /\ Done(Raise(outcome))
    /\ UNCHANGED <<call, opts, repo, source_remote, target_remote, source_project_path, target_project_path, source_branch, source_project, local_commits, target_project, target_branch, data, commits, answer, mr, statuses, gitCalls, prompts, input_line, stdout>>

\* create, lines 320-323: the branch must be among the source remote's refs.
CheckPushed ==
    /\ pc = "pushed"
    /\ IF remote_source_branch \notin repo.refs
       THEN Done(Fatal(PushRequiredMsg(source_remote, remote_source_branch)))
       ELSE Goto("local_commits")
    /\ UNCHANGED <<call, opts, repo, source_remote, target_remote, source_project_path, target_project_path, source_branch, source_project, remote_source_branch, local_commits, target_project, target_branch, data, commits, answer, mr, statuses, hostCalls, gitCalls, prompts, input_line, stdout>>

\* create, lines 324-340: the commits of the local branch its remote
\* counterpart lacks, and the question about them.
LocalCommits ==
    /\ pc = "local_commits"
    /\ \E git \in GitResults :
          /\ gitCalls' = Append(gitCalls, GitCall(source_branch,
                 RefName(source_remote, remote_source_branch), git))
          /\ IF git.returncode /= 0
             THEN /\ Done(Fatal(GitFailedMsg(git.returncode)))
                  /\ UNCHANGED <<local_commits, answer, prompts, input_line>>
             ELSE IF get_mr_commits_raises(git.stdout)
             THEN /\ Done(Raise("ValueError"))
                  /\ UNCHANGED <<local_commits, answer, prompts, input_line>>
             ELSE /\ local_commits' = get_mr_commits(git.stdout)
                  /\ IF local_commits' /= <<>>
                     THEN \E typed \in Answers :
                             /\ prompts' = Append(prompts, "local_commits")
                             /\ answer' = typed
                             /\ input_line' = typed
                             /\ IF ~is_yes(typed) THEN Done(Return(1))
                                ELSE Goto("target_project")
                     ELSE /\ Goto("target_project")
                          /\ UNCHANGED <<answer, prompts, input_line>>
    /\ UNCHANGED <<call, opts, repo, source_remote, target_remote, source_project_path, target_project_path, source_branch, source_project, remote_source_branch, target_project, target_branch, data, commits, mr, statuses, hostCalls, stdout>>

\* create, lines 342-351: the target project, the target branch and the draft.
GetTargetProject ==
    /\ pc = "target_project"
    /\ \E outcome \in HostOutcomes :
          /\ hostCalls' = Append(hostCalls, HostCall("get_project_by_path",
                 "projects.get", target_project_path, outcome))
          /\ IF outcome = "ok"
             THEN LET project == HostProject(target_project_path)
                      branch  == Or(opts.target_branch, project.default_branch)
                  IN /\ target_project' = project
                     /\ target_branch' = branch
                     /\ data' = [source_branch |-> remote_source_branch,
                                 target_project_id |-> project.id,
                                 target_branch |-> branch,
                                 assignee |-> opts.assignee,
                                 remove_source_branch |-> opts.remove_branch]
                     /\ Goto("commits")
             ELSE /\ UNCHANGED <<target_project, target_branch, data>>
                  /\ Done(Fatal(ProjectLookupMsg(target_project_path, outcome)))
    /\ UNCHANGED <<call, opts, repo, source_remote, target_remote, source_project_path, target_project_path, source_branch, source_project, remote_source_branch, local_commits, commits, answer, mr, statuses, gitCalls, prompts, input_line, stdout>>

\* create, lines 353-368: the commits of the merge request and the default title.
ComputeCommits ==
    /\ pc = "commits"
    /\ \E git \in GitResults :
          /\ gitCalls' = Append(gitCalls, GitCall(
                 source_remote \o <<"/">> \o remote_source_branch, target_branch, git))
          /\ IF git.returncode /= 0
             THEN /\ Done(Fatal(GitFailedMsg(git.returncode)))
                  /\ UNCHANGED <<commits, data>>
             ELSE IF get_mr_commits_raises(git.stdout)
             THEN /\ Done(Raise("ValueError"))
                  /\ UNCHANGED <<commits, data>>
             ELSE /\ commits' = get_mr_commits(git.stdout)
                  /\ IF commits' = <<>>
                     THEN /\ Done(Fatal(NoCommitsMsg(
                                 get_mr_outline(data, source_project, target_project))))
                          /\ UNCHANGED data
                     ELSE /\ data' = Put(data, "title",
                                 default_title(opts.message, commits', remote_source_branch))
                          /\ Goto("confirm")
    /\ UNCHANGED <<call, opts, repo, source_remote, target_remote, source_project_path, target_project_path, source_branch, source_project, remote_source_branch, local_commits, target_project, target_branch, answer, mr, statuses, hostCalls, prompts, input_line, stdout>>

\* create, lines 370-380, with show_preview_and_confirm and edit_mr: the
\* preview question (an empty line is read as Y) or the editor.
Confirm ==
    /\ pc = "confirm"
    /\ IF opts.edit
       THEN \E buffer \in EditorOutputs(
                    edit_mr_content(data, source_project, target_project, commits)) :
               /\ prompts' = Append(prompts, "editor")
               /\ data' = edit_mr(data, buffer)
               /\ UNCHANGED <<answer, input_line>>
               /\ Goto("assignee")
       ELSE \E typed \in Answers :
               /\ answer' = Or(typed, <<"Y">>)
               /\ input_line' = typed
               /\ IF is_edit(answer')
                  THEN \E buffer \in EditorOutputs(
                               edit_mr_content(data, source_project, target_project, commits)) :
                          /\ prompts' = prompts \o <<"preview", "editor">>
                          /\ data' = edit_mr(data, buffer)
                          /\ Goto("assignee")
                  ELSE /\ prompts' = Append(prompts, "preview")
                       /\ UNCHANGED data
                       /\ IF ~is_yes(answer') THEN Done(Return(1)) ELSE Goto("assignee")
    /\ UNCHANGED <<call, opts, repo, source_remote, target_remote, source_project_path, target_project_path, source_branch, source_project, remote_source_branch, local_commits, target_project, target_branch, commits, mr, statuses, hostCalls, gitCalls, stdout>>

\* create, lines 382-384, with get_user_by_username: the assignee's id; the
\* search itself is not guarded, so a host error escapes.
ResolveAssignee ==
    /\ pc = "assignee"
    /\ IF Truthy(data["assignee"])
       THEN \/ /\ hostCalls' = Append(hostCalls, HostCall("get_user_by_username",
                      "users.search", data["assignee"], "GitlabError"))
               /\ Done(Raise("GitlabError"))
               /\ UNCHANGED data
            \/ \E users \in UserSearchResults :
                  /\ hostCalls' = Append(hostCalls, UserSearch(data["assignee"], users))
                  /\ IF UserMatches(users, data["assignee"]) = {}
                     THEN /\ Done(Fatal(UserNotFoundMsg(data["assignee"])))
                          /\ UNCHANGED data
                     ELSE /\ data' = drop_assignee(Put(data, "assignee_id",
                                 get_user_by_username(users, data["assignee"]).id))
                          /\ Goto("validate")
       ELSE /\ data' = drop_assignee(data)
            /\ UNCHANGED hostCalls
            /\ Goto("validate")
    /\ UNCHANGED <<call, opts, repo, source_remote, target_remote, source_project_path, target_project_path, source_branch, source_project, remote_source_branch, local_commits, target_project, target_branch, commits, answer, mr, statuses, gitCalls, prompts, input_line, stdout>>

\* create, line 385, with validate_mr_data and check_branch: both branches
\* are looked up again, then the title is tested.
Validate ==
    /\ pc = "validate"
    /\ \E o1 \in HostOutcomes :
          LET source_call == HostCall("check_branch", "branches.get",
                  <<source_project.path_with_namespace, data["source_branch"]>>, o1)
          IN IF o1 /= "ok"
             THEN /\ hostCalls' = Append(hostCalls, source_call)
                  /\ Done(Fatal(CheckBranchMsg(source_project, data["source_branch"], o1)))
             ELSE \E o2 \in HostOutcomes :
                     /\ hostCalls' = hostCalls \o <<source_call,
                            HostCall("check_branch", "branches.get",
                                <<target_project.path_with_namespace, data["target_branch"]>>,
                                o2)>>
                     /\ IF o2 /= "ok"
                        THEN Done(Fatal(CheckBranchMsg(
                                    target_project, data["target_branch"], o2)))
                        ELSE IF ~title_ok(data)
                        THEN Done(Fatal(EmptyTitleMsg))
                        ELSE Goto("create")
    /\ UNCHANGED <<call, opts, repo, source_remote, target_remote, source_project_path, target_project_path, source_branch, source_project, remote_source_branch, local_commits, target_project, target_branch, data, commits, answer, mr, statuses, gitCalls, prompts, input_line, stdout>>

\* create, lines 387-403: the draft is submitted and the URL printed.
Create ==
    /\ pc = "create"
    /\ \E outcome \in HostOutcomes :
          /\ hostCalls' = Append(hostCalls,
                 HostCall("create", "mergerequests.create", data, outcome))
          /\ IF outcome = "ok"
             THEN /\ mr' = [web_url |-> WebUrl]
                  /\ stdout' = Append(stdout, CreatedNotice(WebUrl))
                  /\ IF opts.accept_merge THEN Goto("accept_branch") ELSE Done(Return(0))
             ELSE /\ UNCHANGED <<mr, stdout>>
                  /\ Done(Fatal(CreateFailedMsg(outcome)))
    /\ UNCHANGED <<call, opts, repo, source_remote, target_remote, source_project_path, target_project_path, source_branch, source_project, remote_source_branch, local_commits, target_project, target_branch, data, commits, answer, statuses, gitCalls, prompts, input_line>>

\* create, lines 404-408: the tip of the remote branch.
AcceptGetBranch ==
    /\ pc = "accept_branch"
    /\ \E outcome \in HostOutcomes :
          /\ hostCalls' = Append(hostCalls, HostCall("create", "branches.get",
                 <<source_project.path_with_namespace, remote_source_branch>>, outcome))
          /\ IF outcome = "ok" THEN Goto("accept_commit")
             ELSE Done(Fatal(UpdateFailedMsg(outcome)))
    /\ UNCHANGED <<call, opts, repo, source_remote, target_remote, source_project_path, target_project_path, source_branch, source_project, remote_source_branch, local_commits, target_project, target_branch, data, commits, answer, mr, statuses, gitCalls, prompts, input_line, stdout>>

\* create, lines 406-408: the commit at that tip.
AcceptGetCommit ==
    /\ pc = "accept_commit"
    /\ \E outcome \in HostOutcomes :
          /\ hostCalls' = Append(hostCalls, HostCall("create", "commits.get",
                 <<source_project.path_with_namespace, remote_source_branch>>, outcome))
          /\ IF outcome = "ok" THEN Goto("accept_statuses")
             ELSE Done(Fatal(UpdateFailedMsg(outcome)))
    /\ UNCHANGED <<call, opts, repo, source_remote, target_remote, source_project_path, target_project_path, source_branch, source_project, remote_source_branch, local_commits, target_project, target_branch, data, commits, answer, mr, statuses, gitCalls, prompts, input_line, stdout>>

\* create, line 411: commit.statuses.list(), the build statuses of the tip.
AcceptStatuses ==
    /\ pc = "accept_statuses"
    /\ \/ \E outcome \in HostOutcomes \ {"ok"} :
             /\ hostCalls' = Append(hostCalls,
                    HostCall("create", "statuses.list", <<>>, outcome))
             /\ UNCHANGED statuses
             /\ Done(Fatal(UpdateFailedMsg(outcome)))
       \/ \E list \in StatusLists :
             /\ hostCalls' = Append(hostCalls,
                    HostCall("create", "statuses.list", <<>>, "ok"))
             /\ statuses' = list
             /\ Goto("accept_check")
    /\ UNCHANGED <<call, opts, repo, source_remote, target_remote, source_project_path, target_project_path, source_branch, source_project, remote_source_branch, local_commits, target_project, target_branch, data, commits, answer, mr, gitCalls, prompts, input_line, stdout>>

\* create, lines 410-414: a failed status that is not allowed to fail ends
\* the invocation without a merge; the list is a temporary of the test.
AcceptCheck ==
    /\ pc = "accept_check"
    /\ statuses' = <<>>
    /\ IF blocking_failed(statuses)
       THEN /\ stdout' = Append(stdout, FailedBuildsNotice)
            /\ Done(ReturnNone)
       ELSE /\ UNCHANGED stdout
            /\ Goto("merge")
    /\ UNCHANGED <<call, opts, repo, source_remote, target_remote, source_project_path, target_project_path, source_branch, source_project, remote_source_branch, local_commits, target_project, target_branch, data, commits, answer, mr, hostCalls, gitCalls, prompts, input_line>>

\* create, lines 415-427: the merge request is accepted.
Merge ==
    /\ pc = "merge"
    /\ \E outcome \in HostOutcomes :
          /\ hostCalls' = Append(hostCalls,
                 HostCall("create", "mr.merge", merge_args(opts), outcome))
          /\ IF outcome = "ok"
             THEN /\ stdout' = Append(stdout, MergedNotice(opts))
                  /\ Done(Return(0))
             ELSE /\ UNCHANGED stdout
                  /\ Done(Fatal(UpdateFailedMsg(outcome)))
    /\ UNCHANGED <<call, opts, repo, source_remote, target_remote, source_project_path, target_project_path, source_branch, source_project, remote_source_branch, local_commits, target_project, target_branch, data, commits, answer, mr, statuses, gitCalls, prompts, input_line>>

Next ==
    \/ ResolveRemotes
    \/ DirtyCheck
    \/ DetermineSourceBranch
    \/ GetSourceProject
    \/ GetRemoteBranchName
    \/ CheckPushed
    \/ LocalCommits
    \/ GetTargetProject
    \/ ComputeCommits
    \/ Confirm
    \/ ResolveAssignee
    \/ Validate
    \/ Create
    \/ AcceptGetBranch
    \/ AcceptGetCommit
    \/ AcceptStatuses
    \/ AcceptCheck
    \/ Merge

Spec == Init /\ [][Next]_vars


\* ------------------------------------------------------------------- main
\* main, lines 704-716, given how cli.run ended: the exit status of the
\* process. A _GitlabMRError exits with its exit_code; a return value exits
\* with it, None counting as 0; any other exception leaves main and the
\* interpreter exits with status 1.
main_exit_code(r) ==
    CASE r.kind = "fatal" -> r.code
      [] r.kind = "return" -> r.code
      [] r.kind = "return_none" -> 0
      [] OTHER -> 1

\* What main prints on standard output: the ERROR line of a _GitlabMRError,
\* nothing otherwise (the traceback of another exception goes to standard
\* error).
main_printed(r) ==
    IF r.kind = "fatal" THEN <<"ERROR:", " ">> \o r.msg ELSE <<>>

\* ======================================================= helper functions
\* The helper functions called on their own: the input is drawn at the
\* start, the one step applies the function to it.
MaxLines == 2

MaxBufferLines == 3

\* A helper has not been applied yet / returned v.
NotCalled == [kind |-> "none"]
Returned(v) == [kind |-> "value", value |-> v]

\* The variables of Cli.create, which take no part in a helper call.
cliVars == <<opts, repo, pc, result, source_remote, target_remote,
             source_project_path, target_project_path, source_branch,
             source_project, remote_source_branch, local_commits, target_project,
             target_branch, data, commits, answer, mr, statuses, hostCalls,
             gitCalls, prompts, input_line, stdout>>

\* The commits `git cherry -v` may list: the state marker, the hash, the
\* whitespace before the message, and the message (empty for a commit
\* without one; git keeps no whitespace at the end of a subject).
CherryCommits ==
    { [state |-> <<"+">>, hash |-> CherryHash(1), gap |-> <<" ">>,
       message |-> <<"Test">>],
      [state |-> <<"-">>, hash |-> CherryHash(2), gap |-> <<" ">>,
       message |-> <<"Fix", " ", " ", "the", " ", "bug">>],
      [state |-> <<"+">>, hash |-> CherryHash(3), gap |-> <<"\t">>,
       message |-> <<"Merge", " ", "branch">>],
      [state |-> <<"+">>, hash |-> CherryHash(4), gap |-> <<" ">>,
       message |-> <<"+", " ", "plus">>],
      [state |-> <<"+">>, hash |-> CherryHash(5), gap |-> <<>>,
       message |-> <<>>] }

\* The line git prints for a commit.
CherryText(c) ==
    c.state \o <<" ">> \o c.hash \o (IF c.message = <<>> THEN <<>> ELSE c.gap \o c.message)

\* git_cmd, line 232: the standard output of git, stripped.
git_cmd(printed) == Strip(printed)

\* The inputs of get_mr_commits: up to MaxLines commits and what git_cmd
\* returns for them.
CommitInputs ==
    { [fn |-> "get_mr_commits", given |-> listed,
       arg |-> git_cmd(JoinLines([i \in 1..Len(listed) |-> CherryText(listed[i])]
                       \o <<<<>>>>)),
       out |-> NotCalled] :
      listed \in UNION { [1..n -> CherryCommits] : n \in 0..MaxLines } }

\* The remote URLs given to get_project_path_from_url: the SSH shorthand,
\* an https URL and an ssh URL with a port and leading directories, each
\* ending in <group>/<project> followed by no, one or two '.git'.
UrlPrefixes ==
    { <<"git@", "example.com", ":">>,
      <<"https", "://", "example.com", "/">>,
      <<"ssh", "://", "git@", "example.com", ":", "2222", "/", "var", "/", "git", "/">> }

UrlGroups == { <<"group">>, <<"my", ".git", "hub">> }

RECURSIVE DotGits(_)
DotGits(k) == IF k = 0 THEN <<>> ELSE <<".git">> \o DotGits(k - 1)

UrlInputs ==
    { [fn |-> "get_project_path_from_url",
       given |-> [group |-> g, project |-> <<"project">>, suffixes |-> k],
       arg |-> pre \o g \o <<"/", "project">> \o DotGits(k),
       out |-> NotCalled] :
      pre \in UrlPrefixes, g \in UrlGroups, k \in 0..2 }

\* The lines an editor may leave in the buffer: the text of the line, what
\* it is once stripped (norm), and what that makes it: a label with its key,
\* a blank line, a comment, or content.
BufferLines ==
    { [text |-> <<"Title:">>, norm |-> <<"Title:">>, kind |-> "label", key |-> "title"],
      [text |-> <<"Assignee:">>, norm |-> <<"Assignee:">>, kind |-> "label",
       key |-> "assignee"],
      [text |-> <<"Description:">>, norm |-> <<"Description:">>, kind |-> "label",
       key |-> "description"],
      [text |-> <<" ", "Title:", "\t">>, norm |-> <<"Title:">>, kind |-> "label",
       key |-> "title"],
      [text |-> <<>>, norm |-> <<>>, kind |-> "blank", key |-> ""],
      [text |-> <<"#", " note">>, norm |-> <<"#", " note">>, kind |-> "comment",
       key |-> ""],
      [text |-> <<"bob">>, norm |-> <<"bob">>, kind |-> "content", key |-> ""],
      [text |-> <<"Fix", " ", "it">>, norm |-> <<"Fix", " ", "it">>, kind |-> "content",
       key |-> ""],
      [text |-> <<" ", "title:">>, norm |-> <<"title:">>, kind |-> "content",
       key |-> ""] }

\* The buffers of up to MaxBufferLines such lines.
Buffers == UNION { [1..n -> BufferLines] : n \in 0..MaxBufferLines }

\* The bytes of the file: every line ends with a newline.
BufferText(lines) ==
    IF lines = <<>> THEN <<>>
    ELSE JoinLines([i \in 1..Len(lines) |-> lines[i].text]) \o <<"\n">>

ParseInputs ==
    { [fn |-> "parse_mr_file", given |-> lines, arg |-> BufferText(lines),
       out |-> NotCalled] : lines \in Buffers }

\* The drafts Cli.create hands to edit_mr: the one of the default flags and
\* one with a message and an assignee.
Drafts ==
    { [source_branch |-> <<"feature">>, target_project_id |-> ProjectId,
       target_branch |-> <<"master">>, assignee |-> None,
       remove_source_branch |-> TRUE, title |-> <<"Test">>],
      [source_branch |-> <<"feature">>, target_project_id |-> ProjectId,
       target_branch |-> <<"develop">>, assignee |-> <<"bob">>,
       remove_source_branch |-> FALSE, title |-> <<"Fix", " ", "login">>] }

EditInputs ==
    { [fn |-> "edit_mr", given |-> lines,
       arg |-> [draft |-> draft, buffer |-> BufferText(lines)],
       out |-> NotCalled] : lines \in Buffers, draft \in Drafts }

\* The titles a draft may carry into the editor: a commit subject, a
\* message given by flag, a subject that starts with an issue reference, a
\* message with a space in front, a message that reads like a label, and
\* an empty one.
DraftTitles ==
    { <<"Test">>, <<"Fix", " ", "login">>, <<"#", "42", " ", "fix">>,
      <<" ", "Fix">>, <<"Assignee:">>, <<>> }

\* The assignees a draft may carry: none, an empty one and a username.
DraftAssignees == { None, <<>>, <<"bob">> }

\* The commits listed in the buffer: none or one.
DraftCommits == { <<>>, <<MRCommit(CherryHash(1), <<"Test">>, <<"+">>)>> }

\* The inputs of edit_mr when the editor exits without changing the file:
\* the draft, the two projects and the commits; buffer is the file edit_mr
\* writes.
UntouchedInputs ==
    { [fn |-> "edit_mr_untouched",
       arg |-> [draft |-> [source_branch |-> <<"feature">>,
                           target_project_id |-> ProjectId,
                           target_branch |-> <<"master">>, assignee |-> a,
                           remove_source_branch |-> TRUE, title |-> t],
                source_project |-> HostProject(<<"test", "/", "test">>),
                target_project |-> HostProject(<<"test", "/", "test">>),
                commits |-> cs],
       buffer |-> <<>>,
       out |-> NotCalled] :
      t \in DraftTitles, a \in DraftAssignees, cs \in DraftCommits }

HelperInit ==
    /\ \/ call \in CommitInputs
       \/ call \in UrlInputs
       \/ call \in ParseInputs
       \/ call \in EditInputs
       \/ call \in UntouchedInputs
    /\ opts = DefaultOpts
    /\ repo = [is_dirty |-> FALSE, head |-> None,
               tracking |-> [b \in LocalBranches |-> None], refs |-> {<<"master">>}]
    /\ pc = "helper"
    /\ result = Running
    /\ source_remote = None /\ target_remote = None
    /\ source_project_path = None /\ target_project_path = None
    /\ source_branch = None /\ remote_source_branch = None
    /\ source_project = NoProject /\ target_project = NoProject
    /\ target_branch = None
    /\ local_commits = <<>> /\ commits = <<>>
    /\ data = <<>>
    /\ answer = None /\ input_line = None
    /\ mr = [web_url |-> None]
    /\ statuses = <<>>
    /\ hostCalls = <<>> /\ gitCalls = <<>> /\ prompts = <<>> /\ stdout = <<>>

\* Cli.get_mr_commits on the output of git.
CallGetMrCommits ==
    /\ call.fn = "get_mr_commits" /\ call.out = NotCalled
    /\ call' = [call EXCEPT !.out =
                   IF get_mr_commits_raises(call.arg) THEN Raise("ValueError")
                   ELSE Returned(get_mr_commits(call.arg))]
    /\ UNCHANGED cliVars

\* get_project_path_from_url on the URL of a remote.
CallGetProjectPath ==
    /\ call.fn = "get_project_path_from_url" /\ call.out = NotCalled
    /\ call' = [call EXCEPT !.out = Returned(get_project_path_from_url(call.arg))]
    /\ UNCHANGED cliVars

\* parse_mr_file on the file the editor left.
CallParseMrFile ==
    /\ call.fn = "parse_mr_file" /\ call.out = NotCalled
    /\ call' = [call EXCEPT !.out = Returned(parse_mr_file(call.arg))]
    /\ UNCHANGED cliVars

\* edit_mr, lines 495-501: the draft updated with what is parsed from the
\* file the editor left.
CallEditMr ==
    /\ call.fn = "edit_mr" /\ call.out = NotCalled
    /\ call' = [call EXCEPT !.out = Returned(edit_mr(call.arg.draft, call.arg.buffer))]
    /\ UNCHANGED cliVars

\* edit_mr, lines 467-501, with an editor that leaves the file as edit_mr
\* wrote it: the buffer is written from the draft and parsed back into it.
CallEditMrUntouched ==
    /\ call.fn = "edit_mr_untouched" /\ call.out = NotCalled
    /\ LET content == edit_mr_content(call.arg.draft, call.arg.source_project,
                                      call.arg.target_project, call.arg.commits)
       IN call' = [call EXCEPT !.buffer = content,
                               !.out = Returned(edit_mr(call.arg.draft, content))]
    /\ UNCHANGED cliVars

HelperNext ==
    \/ CallGetMrCommits
    \/ CallGetProjectPath
    \/ CallParseMrFile
    \/ CallEditMr
    \/ CallEditMrUntouched

HelperSpec == HelperInit /\ [][HelperNext]_vars

\* ================================================================ claims
\* The positions of the calls of operation op in the host log.
CallsOf(op) == { i \in 1..Len(hostCalls) : hostCalls[i].op = op }

CreateCalled == CallsOf("mergerequests.create") /= {}

MergeCalled == CallsOf("mr.merge") /= {}

EditorRan == \E i \in 1..Len(prompts) : prompts[i] = "editor"

PreviewShown == \E i \in 1..Len(prompts) : prompts[i] = "preview"

\* A successful lookup of branch on project by check_branch.
Rechecked(project, branch) ==
    [by |-> "check_branch", op |-> "branches.get",
     arg |-> <<project.path_with_namespace, branch>>, outcome |-> "ok"]

\* The lookups of validate_mr_data that failed.
FailedRechecks ==
    { i \in 1..Len(hostCalls) :
        hostCalls[i].by = "check_branch" /\ hostCalls[i].outcome /= "ok" }

\* Both lookups of validate_mr_data were made and succeeded.
BothRechecked ==
    Cardinality({ i \in 1..Len(hostCalls) :
        hostCalls[i].by = "check_branch" /\ hostCalls[i].outcome = "ok" }) = 2

\* C1: every draft handed to mergerequests.create has a non-empty title and
\* was preceded, directly, by the two successful lookups of validate_mr_data
\* of its source branch on the source project and of its target branch on
\* the target project; and when one of the two lookups fails, or the title is
\* empty after both (as after an edit that removed it), the invocation ends
\* with a fatal error and mergerequests.create is never called.
C1_SubmittedDraftIsValidated ==
    /\ \A i \in CallsOf("mergerequests.create") :
          /\ "title" \in DOMAIN hostCalls[i].arg
          /\ hostCalls[i].arg["title"] \notin {None, <<>>}
          /\ i >= 3
          /\ hostCalls[i - 2] = Rechecked(source_project, hostCalls[i].arg["source_branch"])
          /\ hostCalls[i - 1] = Rechecked(target_project, hostCalls[i].arg["target_branch"])
    /\ FailedRechecks /= {} =>
          /\ pc = "done" /\ result.kind = "fatal"
          /\ ~CreateCalled
    /\ (BothRechecked /\ Get(data, "title") \in {None, <<>>}) =>
          /\ pc = "done" /\ result = Fatal(EmptyTitleMsg)
          /\ ~CreateCalled

\* C1 witness: the editor removed the title, both lookups succeeded, and the
\* invocation ended with the empty-title error.
C1_Witness ==
    /\ EditorRan /\ BothRechecked
    /\ data["title"] = <<>>
    /\ result = Fatal(EmptyTitleMsg)

\* Two lines are the same word up to letter case.
SameIgnoringCase(typed, word) ==
    /\ Len(typed) = Len(word)
    /\ \A i \in 1..Len(word) :
          \/ typed[i] = word[i]
          \/ <<word[i], typed[i]>> \in { <<"y", "Y">>, <<"e", "E">>, <<"s", "S">>,
                                         <<"d", "D">>, <<"i", "I">>, <<"t", "T">> }

MeansYes(typed) ==
    \/ typed = <<>>
    \/ SameIgnoringCase(typed, <<"y">>)
    \/ SameIgnoringCase(typed, <<"y", "e", "s">>)

MeansEdit(typed) ==
    \/ SameIgnoringCase(typed, <<"e">>)
    \/ SameIgnoringCase(typed, <<"e", "d", "i", "t">>)

\* The statements of create after the confirmation.
AfterConfirm ==
    {"assignee", "validate", "create", "accept_branch", "accept_commit",
     "accept_statuses", "accept_check", "merge"}

\* The invocation went past the confirmation: it is at a later statement, or
\* it ended there (with a call of users.search or of check_branch made).
WentOnToSubmission ==
    \/ pc \in AfterConfirm
    \/ /\ pc = "done"
       /\ \E i \in 1..Len(hostCalls) :
             hostCalls[i].by \in {"get_user_by_username", "check_branch"}

\* C2: once the preview question was asked (no edit flag), the line read
\* decides: an empty line, y or yes in any letter case go on to submission
\* without the editor; e or edit in any letter case run the editor and then
\* go on to submission; any other line ends the invocation with return value
\* 1, no error and no mergerequests.create call.
C2_PreviewAnswerDecides ==
    PreviewShown =>
        /\ ~opts.edit
        /\ MeansYes(input_line) => WentOnToSubmission /\ ~EditorRan
        /\ MeansEdit(input_line) => WentOnToSubmission /\ EditorRan
        /\ (~MeansYes(input_line) /\ ~MeansEdit(input_line)) =>
              /\ pc = "done" /\ result = Return(1)
              /\ ~CreateCalled /\ ~EditorRan

\* C2 witness: EDIT was typed at the preview question, the editor ran and the
\* draft was submitted.
C2_Witness ==
    /\ PreviewShown /\ input_line = <<"E", "D", "I", "T">>
    /\ EditorRan /\ CreateCalled

\* The title the claim C3 describes, for a given reading of "a message is
\* given".
PriorityTitle(given) ==
    IF given THEN opts.message
    ELSE IF Len(commits) = 1 THEN commits[1].message
    ELSE remote_source_branch

\* C3 as stated: the default title is the --message whenever one is given
\* (also an empty one), else the single commit's message, else the remote
\* branch name.
C3_Original_MessageAlwaysWins ==
    pc = "confirm" => data["title"] = PriorityTitle(opts.message /= None)

\* C3 as amended: the default title is the --message when a non-empty one is
\* given, whatever the number of commits; otherwise (no --message, or an
\* empty one) the single commit's message when there is exactly one commit;
\* otherwise the remote branch name.
C3_DefaultTitlePriority ==
    pc = "confirm" => data["title"] = PriorityTitle(opts.message \notin {None, <<>>})

\* C3 witness: a message was given, there are two commits, and the title is
\* the message.
C3_Witness ==
    /\ pc = "confirm" /\ opts.message = <<"Fix", " ", "login">>
    /\ Len(commits) = 2
    /\ data["title"] = opts.message

\* The host was asked for the remote branch by get_remote_branch_name.
RemoteBranchLookedUp ==
    \E i \in 1..Len(hostCalls) : hostCalls[i].by = "get_remote_branch_name"

\* C4 as stated: when the invocation has looked the remote branch up on the
\* host and that branch is not among the source remote's references, it ends
\* with a fatal error whose message contains `git push <remote> <branch>`,
\* whatever the lookup on the host returned.
C4_Original_PushSuggestedWhateverTheHostSays ==
    (/\ pc = "done"
     /\ RemoteBranchLookedUp
     /\ RemoteBranchOf(source_branch) \notin repo.refs) =>
        /\ result.kind = "fatal"
        /\ Contains(result.msg,
               <<"git push ">> \o source_remote \o <<" ">> \o RemoteBranchOf(source_branch))

\* HEAD is detached and no --source-branch was given.
DetachedWithoutFlag == repo.head = None /\ opts.source_branch = None

\* C5 as stated: with HEAD detached and no explicit source branch, no host
\* call is ever made and the invocation ends with the detached-state error.
C5_Original_DetachedAlwaysReported ==
    DetachedWithoutFlag =>
        /\ hostCalls = <<>>
        /\ pc = "done" => result = Fatal(DetachedMsg)

\* C5 as amended: with HEAD detached and no explicit source branch, no host
\* call is ever made; the invocation ends with the unknown-remote error when
\* a remote is unknown, else with return value 1 when the question about
\* uncommitted changes was asked and not answered y or yes, and in every
\* other case with the detached-state error.
C5_DetachedFailsBeforeAnyHostCall ==
    DetachedWithoutFlag =>
        /\ hostCalls = <<>>
        /\ pc \in {"resolve_remotes", "dirty", "source_branch", "done"}
        /\ pc = "done" =>
              IF source_remote \notin DOMAIN RepoRemotes
              THEN result = Fatal(<<"Cannot find remote [">> \o source_remote \o <<"]">>)
              ELSE IF target_remote \notin DOMAIN RepoRemotes
              THEN result = Fatal(<<"Cannot find remote [">> \o target_remote \o <<"]">>)
              ELSE IF repo.is_dirty
                      /\ ~SameIgnoringCase(input_line, <<"y">>)
                      /\ ~SameIgnoringCase(input_line, <<"y", "e", "s">>)
              THEN result = Return(1)
              ELSE result = Fatal(DetachedMsg)

\* C5 witness: on a dirty tree the question was answered yes, and the
\* invocation ended with the detached-state error.
C5_Witness ==
    /\ DetachedWithoutFlag /\ repo.is_dirty
    /\ prompts = <<"uncommitted">>
    /\ result = Fatal(DetachedMsg)

\* The second run of git cherry, the one against the target branch, printed
\* nothing.
NoCommitsToMerge ==
    /\ Len(gitCalls) = 2
    /\ gitCalls[2].returncode = 0
    /\ gitCalls[2].stdout = <<>>

\* C6: when the reconciliation of <source_remote>/<remote_branch> against the
\* target branch yields no commit, the invocation ends with a fatal error
\* whose message contains <sourceProject>:<sourceBranch> ->
\* <targetProject>:<targetBranch>, and neither the preview question, nor the
\* editor, nor mergerequests.create happened.
C6_NoCommitsIsFatalWithOutline ==
    NoCommitsToMerge =>
        /\ gitCalls[2].source = source_remote \o <<"/">> \o remote_source_branch
        /\ gitCalls[2].target = target_branch
        /\ pc = "done" /\ result.kind = "fatal"
        /\ Contains(result.msg,
               source_project.path_with_namespace \o <<":">> \o remote_source_branch
               \o <<" -> ">>
               \o target_project.path_with_namespace \o <<":">> \o target_branch)
        /\ ~PreviewShown /\ ~EditorRan /\ ~CreateCalled

\* C6 witness: no commit between a branch of the fork and the target branch
\* of another project.
C6_Witness ==
    /\ NoCommitsToMerge /\ pc = "done"
    /\ source_project /= target_project

\* A status of the list is failed and not allowed to fail.
HasBlockingFailure(list) ==
    \E i \in 1..Len(list) : list[i].status = "failed" /\ ~list[i].allow_failure

\* The create call on the host succeeded.
CreateSucceeded ==
    \E i \in CallsOf("mergerequests.create") : hostCalls[i].outcome = "ok"

Printed(text) == \E i \in 1..Len(stdout) : stdout[i] = text

\* C7: the build statuses are tested only when auto-merge was requested and
\* the merge request was created; if one of them is failed and not allowed to
\* fail, the notice is printed and the invocation ends without calling the
\* host; otherwise, failed statuses that are allowed to fail included, it
\* goes on to the merge. Once the notice is printed no merge call exists.
C7_BlockingFailureSkipsMerge ==
    /\ [](pc = "accept_check" => opts.accept_merge /\ CreateSucceeded)
    /\ [](Printed(FailedBuildsNotice) => pc = "done" /\ ~MergeCalled)
    /\ [][pc = "accept_check" =>
            IF HasBlockingFailure(statuses)
            THEN /\ pc' = "done"
                 /\ stdout' = Append(stdout, FailedBuildsNotice)
                 /\ hostCalls' = hostCalls
            ELSE /\ pc' = "merge"
                 /\ stdout' = stdout]_vars

\* C7 witness: the statuses are about to be tested, one of them failed but
\* allowed to fail, another failed and blocking.
C7_Witness ==
    /\ pc = "accept_check"
    /\ HasBlockingFailure(statuses)
    /\ \E i \in 1..Len(statuses) :
          statuses[i].status = "failed" /\ statuses[i].allow_failure

\* What the host is asked after the merge request was created.
AfterCreateOps == {"branches.get", "commits.get", "statuses.list", "mr.merge"}

\* C8: a merge call is made at most once, after a successful create call of
\* the same invocation, only when auto-merge was requested, with
\* merge_when_pipeline_succeeds true, and only from the step reached when no
\* status is a blocking failure. After the create succeeded its URL is
\* printed and stays printed, and the host is asked nothing but the branch,
\* the commit, the statuses and the merge: whatever the outcome of the merge
\* step, nothing deletes the created request.
C8_MergeFollowsCreateAndNeverUndoesIt ==
    /\ [](/\ Cardinality(CallsOf("mr.merge")) <= 1
          /\ \A i \in CallsOf("mr.merge") :
                /\ \E j \in CallsOf("mergerequests.create") :
                      j < i /\ hostCalls[j].outcome = "ok"
                /\ opts.accept_merge
                /\ hostCalls[i].arg = [merge_when_pipeline_succeeds |-> TRUE])
    /\ [](\A j \in CallsOf("mergerequests.create") :
             hostCalls[j].outcome = "ok" =>
                /\ Printed(CreatedNotice(WebUrl))
                /\ \A k \in (j + 1)..Len(hostCalls) : hostCalls[k].op \in AfterCreateOps)
    /\ [][/\ pc' = "merge" => pc = "accept_check" /\ ~HasBlockingFailure(statuses)
          /\ CallsOf("mr.merge")' /= CallsOf("mr.merge") => pc = "merge"
          /\ Printed(CreatedNotice(WebUrl)) => Printed(CreatedNotice(WebUrl))']_vars

\* C8 witness: the merge call failed after the request was created, and the
\* invocation ended with the update error.
C8_Witness ==
    /\ pc = "done" /\ result.kind = "fatal"
    /\ \E i \in CallsOf("mr.merge") : hostCalls[i].outcome = "GitlabError"
    /\ Printed(CreatedNotice(WebUrl))

\* C9: no payload given to mergerequests.create holds both an assignee and an
\* assignee_id, whether the assignee came from the flag, from the editor, was
\* left empty or was never given.
C9_AssigneeKeysExclusive ==
    \A i \in CallsOf("mergerequests.create") :
        /\ "assignee_id" \in DOMAIN hostCalls[i].arg =>
              "assignee" \notin DOMAIN hostCalls[i].arg
        /\ "assignee" \in DOMAIN hostCalls[i].arg =>
              "assignee_id" \notin DOMAIN hostCalls[i].arg

\* C9 witness: the assignee was typed in the editor, resolved, and the
\* payload was submitted with its id.
C9_Witness ==
    /\ opts.assignee = None /\ EditorRan
    /\ \E i \in CallsOf("mergerequests.create") :
          "assignee_id" \in DOMAIN hostCalls[i].arg

\* The case of C10: no flag, a clean tree with HEAD on feature whose remote
\* branch is feature too, no local commit, the one commit "Test" against the
\* target branch, yes at the preview, and a host that answers every call.
EndToEndCase ==
    /\ opts = DefaultOpts
    /\ ~repo.is_dirty /\ repo.head = <<"feature">>
    /\ RemoteBranchOf(<<"feature">>) = <<"feature">>
    /\ Len(gitCalls) = 2
    /\ gitCalls[1].returncode = 0 /\ gitCalls[1].stdout = <<>>
    /\ gitCalls[2].returncode = 0 /\ gitCalls[2].stdout = CherryLine(1)
    /\ prompts = <<"preview">> /\ MeansYes(input_line)
    /\ \A i \in 1..Len(hostCalls) : hostCalls[i].outcome = "ok"
    /\ pc = "done"

EndToEndPayload(title) ==
    [target_project_id |-> ProjectId, title |-> title, target_branch |-> <<"master">>,
     source_branch |-> <<"feature">>, remove_source_branch |-> TRUE]

\* C10 as stated: in that case the payload given to mergerequests.create is
\* {target_project_id: 123, title: "feature", target_branch: "master",
\* source_branch: "feature", remove_source_branch: true} and create returns 0.
C10_Original_TitleIsBranchName ==
    EndToEndCase =>
        /\ \E i \in CallsOf("mergerequests.create") :
              hostCalls[i].arg = EndToEndPayload(<<"feature">>)
        /\ result = Return(0)

\* C10 as amended: in that case the payload is the same but for the title,
\* which is the message of the one commit, "Test"; create is called once and
\* returns 0.
C10_EndToEndPayloadTitledByCommit ==
    EndToEndCase =>
        /\ Cardinality(CallsOf("mergerequests.create")) = 1
        /\ \A i \in CallsOf("mergerequests.create") :
              hostCalls[i].arg = EndToEndPayload(<<"Test">>)
        /\ result = Return(0)

\* C10 witness: the end-to-end case ran to its end and the URL was printed.
C10_Witness ==
    EndToEndCase /\ Printed(CreatedNotice(WebUrl))

\* Every commit given to git has a message.
AllHaveMessages(listed) == \A i \in 1..Len(listed) : listed[i].message /= <<>>

\* C11: for an output of git whose lines each hold a state marker, a hash and
\* a message, get_mr_commits returns one entry per line, in the order of the
\* lines, with the line's first field as state, its second as hash and all
\* that follows the whitespace after the hash as message; for an output
\* without lines it returns the empty sequence and raises nothing.
C11_OneEntryPerLineInOrder ==
    (/\ call.fn = "get_mr_commits" /\ call.out /= NotCalled
     /\ AllHaveMessages(call.given)) =>
        call.out = Returned([i \in 1..Len(call.given) |->
                       [hash |-> call.given[i].hash,
                        message |-> call.given[i].message,
                        state |-> call.given[i].state]])

\* C11 witness: two lines were parsed, the first with a message of several
\* words, the second separated by a tab.
C11_Witness ==
    /\ call.fn = "get_mr_commits" /\ call.out.kind = "value"
    /\ Len(call.out.value) = 2
    /\ call.out.value[1].message = <<"Fix", " ", " ", "the", " ", "bug">>
    /\ call.out.value[2].state = <<"+">>
    /\ call.given[2].gap = <<"\t">>

\* C12 as stated: the project path of a remote URL is its last two
\* '/'-separated segments, <group>/<project>, with exactly one trailing
\* '.git' removed when there is one, a '.git' before it kept, and the two
\* segments unchanged when the last one does not end in '.git'.
C12_Original_LastTwoSegmentsWithoutOneDotGit ==
    (call.fn = "get_project_path_from_url" /\ call.out /= NotCalled) =>
        call.out = Returned(
            call.given.group \o <<"/">> \o call.given.project
            \o (IF call.given.suffixes = 0 THEN <<>>
                ELSE DotGits(call.given.suffixes - 1)))

\* The remote names the invocation works with: the flag, else the default.
NamedSourceRemote ==
    IF opts.source_remote \in {None, <<>>} THEN <<"origin">> ELSE opts.source_remote

NamedTargetRemote ==
    IF opts.target_remote \in {None, <<>>} THEN <<"origin">> ELSE opts.target_remote

SourceRemoteUnknown == NamedSourceRemote \notin DOMAIN RepoRemotes

TargetRemoteUnknown == NamedTargetRemote \notin DOMAIN RepoRemotes

\* C13: when the source or the target remote is not a remote of the
\* repository, nothing is asked, the host is not called and git is not run,
\* and the invocation ends with the fatal message Cannot find remote [<name>]
\* naming that remote (the source remote when both are unknown).
C13_UnknownRemoteNamedBeforeAnythingElse ==
    (SourceRemoteUnknown \/ TargetRemoteUnknown) =>
        /\ prompts = <<>> /\ hostCalls = <<>> /\ gitCalls = <<>>
        /\ pc \in {"resolve_remotes", "done"}
        /\ pc = "done" =>
              result = [kind |-> "fatal", code |-> 1,
                        msg |-> <<"Cannot find remote [">>
                                \o (IF SourceRemoteUnknown THEN NamedSourceRemote
                                    ELSE NamedTargetRemote)
                                \o <<"]">>]

\* C13 witness: the source remote is the default one, the target remote is
\* unknown, and the invocation ended naming the target remote.
C13_Witness ==
    /\ opts.source_remote = None /\ opts.target_remote = <<"gone">>
    /\ pc = "done"
    /\ result.msg = <<"Cannot find remote [", "gone", "]">>

\* The last line typed is neither y nor yes in any letter case.
NotAffirmative ==
    /\ ~SameIgnoringCase(input_line, <<"y">>)
    /\ ~SameIgnoringCase(input_line, <<"y", "e", "s">>)

Asked(question) == \E i \in 1..Len(prompts) : prompts[i] = question

\* C14: on a clean tree the question about uncommitted changes is never
\* asked; on a dirty tree it is the first thing asked once the remotes are
\* resolved, and every answer but y or yes, the empty one included, ends the
\* invocation with return value 1, no error and no host call.
C14_DirtyTreeQuestionDeclined ==
    /\ ~repo.is_dirty => ~Asked("uncommitted")
    /\ (/\ repo.is_dirty
        /\ ~SourceRemoteUnknown /\ ~TargetRemoteUnknown
        /\ pc \notin {"resolve_remotes", "dirty"}) =>
           prompts /= <<>> /\ prompts[1] = "uncommitted"
    /\ (prompts = <<"uncommitted">> /\ NotAffirmative) =>
           /\ pc = "done" /\ result = [kind |-> "return", code |-> 1, msg |-> <<>>]
           /\ hostCalls = <<>>

\* C14 witness: the question was answered with an empty line and the
\* invocation returned 1.
C14_Witness ==
    /\ repo.is_dirty /\ prompts = <<"uncommitted">> /\ input_line = <<>>
    /\ pc = "done" /\ result.code = 1

\* The line git prints for a commit without a message.
CommitWithoutMessage == <<"+", " ">> \o CherryHash(1)

\* The first run of git cherry succeeded and its output could be parsed.
FirstRunListed ==
    /\ gitCalls /= <<>>
    /\ gitCalls[1].returncode = 0
    /\ gitCalls[1].stdout /= CommitWithoutMessage

\* C15: git cherry is first run for the local source branch against
\* <source_remote>/<remote_branch>, after the host confirmed the branch and
\* the remote's references hold it; the question about local commits is
\* asked if and only if that run listed a commit; an answer that is not y or
\* yes ends the invocation with return value 1 and no error, before the
\* target project is looked up, before the second run of git and without a
\* create call.
C15_LocalCommitsQuestion ==
    /\ gitCalls /= <<>> =>
          /\ gitCalls[1].source = source_branch
          /\ gitCalls[1].target = source_remote \o <<"/">> \o remote_source_branch
          /\ remote_source_branch \in repo.refs
          /\ Len(hostCalls) >= 2
          /\ hostCalls[2].by = "get_remote_branch_name" /\ hostCalls[2].outcome = "ok"
    /\ Asked("local_commits") <=> (FirstRunListed /\ gitCalls[1].stdout /= <<>>)
    /\ (/\ prompts /= <<>> /\ prompts[Len(prompts)] = "local_commits"
        /\ NotAffirmative) =>
           /\ pc = "done" /\ result = [kind |-> "return", code |-> 1, msg |-> <<>>]
           /\ Len(gitCalls) = 1 /\ Len(hostCalls) = 2
           /\ ~CreateCalled

\* C15 witness: two local commits were listed, the answer was n, and the
\* invocation returned 1.
C15_Witness ==
    /\ Len(local_commits) = 2 /\ Asked("local_commits")
    /\ input_line = <<"n">>
    /\ pc = "done" /\ result.code = 1

\* The invocation failed: it ended with an error, of the tool or not.
EndedWithFailure == pc = "done" /\ result.kind \in {"fatal", "exception"}

\* C16 as stated: through main the process exits with 0 when the merge
\* request was created and create returned (the skipped merge included),
\* with 1 and no message when a question was declined, and with 1 and a
\* printed line ERROR: <message> for every failure of the invocation, a host
\* error and a malformed commit line included.
C16_Original_ExitStatusAndErrorLine ==
    pc = "done" =>
        /\ (CreateSucceeded /\ result.kind \in {"return", "return_none"}) =>
              main_exit_code(result) = 0
        /\ (result.kind = "return" /\ ~CreateSucceeded) =>
              main_exit_code(result) = 1 /\ main_printed(result) = <<>>
        /\ EndedWithFailure =>
              /\ main_exit_code(result) = 1
              /\ main_printed(result) /= <<>>
              /\ main_printed(result)[1] = "ERROR:"

\* C17 as stated: when git printed a line that does not hold three fields,
\* here a commit without a message, the invocation ends with the tool's own
\* fatal error, reported by main as an ERROR line.
C17_Original_MalformedLineIsFatal ==
    (/\ pc = "done"
     /\ \E i \in 1..Len(gitCalls) :
           gitCalls[i].returncode = 0 /\ gitCalls[i].stdout = CommitWithoutMessage) =>
        /\ result.kind = "fatal"
        /\ main_printed(result) /= <<>>

\* The labels of the edit buffer and the fields they name.
LabelKeys == {"title", "assignee", "description"}

\* Line i of the buffer opens a section.
OpensSection(lines, i) == lines[i].kind = "label"

\* The fields whose label occurs in the buffer.
KeysIn(lines) == { lines[i].key : i \in { j \in 1..Len(lines) : OpensSection(lines, j) } }

\* The last line that opens the section of key.
LastLabelOf(lines, key) ==
    CHOOSE i \in 1..Len(lines) :
        /\ OpensSection(lines, i) /\ lines[i].key = key
        /\ \A j \in (i + 1)..Len(lines) : ~(OpensSection(lines, j) /\ lines[j].key = key)

\* The first label line after line i, or the end of the buffer.
SectionEnd(lines, i) ==
    IF \E j \in (i + 1)..Len(lines) : OpensSection(lines, j)
    THEN CHOOSE j \in (i + 1)..Len(lines) :
            OpensSection(lines, j) /\ \A k \in (i + 1)..(j - 1) : ~OpensSection(lines, k)
    ELSE Len(lines) + 1

IsContent(l) == l.kind = "content"

\* The content lines of the last section of key, stripped, one per line.
SectionValue(lines, key) ==
    LET first == LastLabelOf(lines, key) + 1
        kept  == SelectSeq(SubSeq(lines, first, SectionEnd(lines, first - 1) - 1), IsContent)
    IN JoinLines([i \in 1..Len(kept) |-> kept[i].norm])

\* What a buffer holds: for each label in it, the value of its section.
Held(lines) == [key \in KeysIn(lines) |-> SectionValue(lines, key)]

IsContentOrBlank(l) == l.kind \in {"content", "blank"}

\* The value of a section when the blank lines inside it count as content.
SectionValueWithBlanks(lines, key) ==
    LET first == LastLabelOf(lines, key) + 1
        kept  == SelectSeq(SubSeq(lines, first, SectionEnd(lines, first - 1) - 1),
                           IsContentOrBlank)
    IN JoinLines([i \in 1..Len(kept) |-> kept[i].norm])

\* C19 as stated: every label of the buffer opens its section and the value
\* of a field is made of all the lines from its label to the next label or
\* the end, in order, comment lines left out; blank lines are left out only
\* outside a section, and the lines before the first label belong to no field.
C19_Original_BlankLinesKeptInsideSections ==
    (call.fn = "parse_mr_file" /\ call.out /= NotCalled) =>
        call.out = Returned([key \in KeysIn(call.given) |->
                                SectionValueWithBlanks(call.given, key)])

\* C19 as amended: every line is first stripped of surrounding whitespace; a
\* stripped line equal to Title:, Assignee: or Description: opens that
\* section (again, if it was opened before: the last one counts); the value
\* of a field is made of the stripped lines from its label to the next label
\* or the end, in order, joined by newlines, where comment lines and blank
\* lines are left out wherever they stand, inside a section too; the lines
\* before the first label belong to no field, and a label that does not
\* occur gives no field.
C19_LabelGrammar ==
    (call.fn = "parse_mr_file" /\ call.out /= NotCalled) =>
        call.out = Returned(Held(call.given))

\* C19 witness: a buffer with a line before the first label, a title and an
\* empty description was parsed.
C19_Witness ==
    /\ call.fn = "parse_mr_file" /\ call.out /= NotCalled
    /\ Len(call.given) = 3
    /\ call.given[1].kind = "content"
    /\ call.out.value = [title |-> <<"Fix", " ", "it">>]

\* C18 as stated: after edit_mr the title, the assignee and the description
\* are what the buffer holds for their labels, empty or absent for a label
\* the buffer does not hold content for, and every other field of the draft
\* is as before.
C18_Original_ThreeFieldsFullyReplaced ==
    (call.fn = "edit_mr" /\ call.out /= NotCalled) =>
        /\ \A key \in LabelKeys :
              IF key \in KeysIn(call.given)
              THEN Get(call.out.value, key) = SectionValue(call.given, key)
              ELSE Get(call.out.value, key) \in {None, <<>>}
        /\ \A key \in DOMAIN call.arg.draft \ LabelKeys :
              /\ key \in DOMAIN call.out.value
              /\ call.out.value[key] = call.arg.draft[key]
        /\ DOMAIN call.out.value \subseteq DOMAIN call.arg.draft \cup LabelKeys

\* The positions of the successful user searches in the host log.
UserSearches == { i \in CallsOf("users.search") : hostCalls[i].outcome = "ok" }

\* The ids of the users of search i whose username is exactly the one asked.
ExactIds(i) ==
    { hostCalls[i].returned[k].id :
        k \in { n \in 1..Len(hostCalls[i].returned) :
                  hostCalls[i].returned[n].username = hostCalls[i].arg } }

\* C20: a non-empty assignee of the draft is searched on the host before
\* anything else happens to the draft, an empty or absent one is not; the
\* assignee_id of a submitted payload is the id of a user of the preceding
\* search whose username equals the name searched; and a search without such
\* a user ends the invocation with Cannot find user [<name>] and no create
\* call.
C20_AssigneeResolvedByExactUsername ==
    /\ [](\A i \in CallsOf("mergerequests.create") :
             IF "assignee_id" \in DOMAIN hostCalls[i].arg
             THEN \E j \in UserSearches :
                     /\ j < i
                     /\ hostCalls[j].arg \notin {None, <<>>}
                     /\ hostCalls[i].arg["assignee_id"] \in ExactIds(j)
             ELSE \A j \in CallsOf("users.search") : j > i)
    /\ [](\A j \in UserSearches :
             ExactIds(j) = {} =>
                /\ pc = "done"
                /\ result = [kind |-> "fatal", code |-> 1,
                             msg |-> <<"Cannot find user [">> \o hostCalls[j].arg \o <<"]">>]
                /\ ~CreateCalled)
    /\ [][pc = "assignee" =>
            IF data["assignee"] \in {None, <<>>}
            THEN hostCalls' = hostCalls /\ pc' = "validate"
            ELSE /\ Len(hostCalls') = Len(hostCalls) + 1
                 /\ hostCalls'[Len(hostCalls')].op = "users.search"
                 /\ hostCalls'[Len(hostCalls')].arg = data["assignee"]]_vars

\* C20 witness: the search for bob returned bobby before bob, and the
\* payload was submitted with bob's id.
C20_Witness ==
    /\ \E j \in UserSearches :
          /\ Len(hostCalls[j].returned) = 2
          /\ hostCalls[j].returned[1].username /= hostCalls[j].arg
    /\ \E i \in CallsOf("mergerequests.create") :
          "assignee_id" \in DOMAIN hostCalls[i].arg /\ hostCalls[i].arg["assignee_id"] = 7

\* Two optional strings are the same text: equal, or both absent or empty.
SameText(a, b) == Or(a, <<>>) = Or(b, <<>>)

\* C21 as stated: when the editor leaves the buffer written by edit_mr
\* unmodified, the draft edit_mr returns has the same title and the same
\* assignee as the draft passed in, for every title and assignee.
C21_Original_UntouchedBufferKeepsTitleAndAssignee ==
    (call.fn = "edit_mr_untouched" /\ call.out /= NotCalled) =>
        /\ SameText(Get(call.out.value, "title"), Get(call.arg.draft, "title"))
        /\ SameText(Get(call.out.value, "assignee"), Get(call.arg.draft, "assignee"))

====
